---- MODULE Spec2Model ----
(***************************************************************************)
(* The question-answering pipeline of sql_agent_langgraph.py (a LangGraph  *)
(* DAG of stage functions over a GraphState dict) together with the text   *)
(* utilities of utils.py it calls.                                         *)
(*                                                                         *)
(* Text is modelled character by character: a Python str is a sequence of  *)
(* one-character strings.  The backtick cannot be written inside a TLA+    *)
(* string, so the atom BT stands for that one character.                   *)
(***************************************************************************)
EXTENDS FiniteSets, Integers, Sequences, TLC

VARIABLES
    caller,       \* "dag": the compiled graph runs the nodes; "direct": one node function
                  \* is called on its own
    pc,           \* node about to run; "Idle", "END", "Returned" or "Raised"
    state,        \* the GraphState dict: a function from the keys present to their values
    trace,        \* nodes entered so far in this run, in order
    db_log,       \* pd.read_sql calls of this run on the shared connection, in order
    llm_calls,    \* language-model invocations of this run, in order
    last_response,\* text returned by the latest language-model invocation
    exec_log,     \* what the latest execute_chart_code call did with the script
    figs,         \* open figures of the process-wide pyplot state
    pre_figs,     \* figures that were open when the latest execute_chart_code call began
    files,        \* chart files written under generated_charts/
    now,          \* int(time.time())
    runs,         \* questions handed to the compiled DAG so far
    saves,        \* paths handed to plt.savefig in this process, in order
    call,         \* a utils.py function called on its own: name, argument, value returned
    sessions,     \* browser sessions rendering a chart in this process, step by step
    canvas,       \* the figures of the pyplot state, the current one last, each with
                  \* the sessions whose script drew on it
    db_manager,   \* the fields of the DatabaseManager object
    engines,      \* the SQLAlchemy engines the manager's fields refer to: URI, disposed
    session_state \* st.session_state of one browser session

vars == <<caller, pc, state, trace, db_log, llm_calls, last_response, exec_log,
          figs, pre_figs, files, now, runs, saves, call, sessions, canvas,
          db_manager, engines, session_state>>

---------------------------------------------------------------------------
(* Bounds of the model *)

MaxRuns == 2
MaxTime == 1
MaxScriptFigs == 1
MaxOpenFigs == 1

---------------------------------------------------------------------------
(* Python str primitives *)

BT == "BACKTICK"
NL == "\n"
TAB == "\t"

UpperLetters == <<"A","B","C","D","E","F","G","H","I","J","K","L","M",
                  "N","O","P","Q","R","S","T","U","V","W","X","Y","Z">>
LowerLetters == <<"a","b","c","d","e","f","g","h","i","j","k","l","m",
                  "n","o","p","q","r","s","t","u","v","w","x","y","z">>
Digits == {"0","1","2","3","4","5","6","7","8","9"}

Range(f) == {f[i] : i \in DOMAIN f}

Whitespace == {" ", NL, TAB, "\r"}

\* \w of the re module (ASCII part)
WordChars == Range(UpperLetters) \cup Range(LowerLetters) \cup Digits \cup {"_"}

lower_char(c) ==
    IF c \in Range(UpperLetters)
    THEN LowerLetters[CHOOSE i \in 1..26 : UpperLetters[i] = c]
    ELSE c

upper_char(c) ==
    IF c \in Range(LowerLetters)
    THEN UpperLetters[CHOOSE i \in 1..26 : LowerLetters[i] = c]
    ELSE c

lower(s) == [i \in 1..Len(s) |-> lower_char(s[i])]
upper(s) == [i \in 1..Len(s) |-> upper_char(s[i])]

Drop(s, n) == SubSeq(s, n + 1, Len(s))

\* s[i:i+len(p)] == p
MatchAt(s, p, i) ==
    /\ i >= 1
    /\ i + Len(p) - 1 <= Len(s)
    /\ \A k \in 1..Len(p) : s[i + k - 1] = p[k]

startswith(s, p) == MatchAt(s, p, 1)

\* s.find(p, i), 1-based; 0 when p does not occur at or after i
RECURSIVE find(_, _, _)
find(s, p, i) ==
    IF i + Len(p) - 1 > Len(s) THEN 0
    ELSE IF MatchAt(s, p, i) THEN i
    ELSE find(s, p, i + 1)

contains(s, p) == find(s, p, 1) # 0

\* s.split(sep): always at least one part
RECURSIVE split(_, _)
split(s, sep) ==
    LET i == find(s, sep, 1)
    IN  IF i = 0 THEN <<s>>
        ELSE <<SubSeq(s, 1, i - 1)>> \o split(Drop(s, i + Len(sep) - 1), sep)

\* sep.join(parts)
RECURSIVE join(_, _)
join(parts, sep) ==
    IF parts = <<>> THEN <<>>
    ELSE IF Len(parts) = 1 THEN parts[1]
    ELSE parts[1] \o sep \o join(Tail(parts), sep)

\* s.replace(old, new): non-overlapping occurrences, left to right
RECURSIVE replace(_, _, _)
replace(s, old, new) ==
    IF Len(s) < Len(old) THEN s
    ELSE IF MatchAt(s, old, 1) THEN new \o replace(Drop(s, Len(old)), old, new)
    ELSE <<s[1]>> \o replace(Tail(s), old, new)

RECURSIVE lstrip(_)
lstrip(s) ==
    IF s # <<>> /\ s[1] \in Whitespace THEN lstrip(Tail(s)) ELSE s

RECURSIVE rstrip(_)
rstrip(s) ==
    IF s # <<>> /\ s[Len(s)] \in Whitespace THEN rstrip(SubSeq(s, 1, Len(s) - 1)) ELSE s

strip(s) == rstrip(lstrip(s))

\* index of the last character of the longest run of characters of `set`
\* that starts at i; i - 1 when s[i] is not in `set`
RECURSIVE run_end(_, _, _)
run_end(s, i, set) ==
    IF i <= Len(s) /\ s[i] \in set THEN run_end(s, i + 1, set) ELSE i - 1

\* [x for x in parts if Keep(x)]
filter(parts, Keep(_)) == SelectSeq(parts, Keep)

\* [f(x) for x in parts]
map(parts, F(_)) == [i \in 1..Len(parts) |-> F(parts[i])]

---------------------------------------------------------------------------
(* utils.py *)

SqlKeywords ==
    << <<"S","E","L","E","C","T">>, <<"W","I","T","H">>, <<"U","P","D","A","T","E">>,
       <<"D","E","L","E","T","E">>, <<"I","N","S","E","R","T">> >>

sQLQuery == <<"S","Q","L","Q","u","e","r","y",":">>
your_table_name == <<"y","o","u","r","_","t","a","b","l","e","_","n","a","m","e">>
store_sales_data == <<"s","t","o","r","e","_","s","a","l","e","s","_","d","a","t","a">>
fence_sql == <<BT,BT,BT,"s","q","l">>
fence == <<BT,BT,BT>>

has_keyword(s) == \E k \in 1..Len(SqlKeywords) : contains(upper(s), SqlKeywords[k])
starts_with_keyword(s) == \E k \in 1..Len(SqlKeywords) : startswith(strip(upper(s)), SqlKeywords[k])

\* the for loops of extract_sql_code: the first element passing the test, or <<>> (as a
\* one-element or empty list) when the loop falls through
first_where(parts, Test(_)) ==
    LET hits == filter(parts, Test) IN IF hits = <<>> THEN <<>> ELSE <<hits[1]>>

\* extract_sql_code with the line scan tried before the backtick scan
extract_sql_code_lines_first(response) ==
    LET text0 == strip(replace(response, sQLQuery, <<>>))
        text == replace(text0, your_table_name, store_sales_data)
        fenced == strip(split(split(lower(text), fence_sql)[2], fence)[1])
        quoted == IF contains(text, <<BT>>)
                  THEN first_where(split(text, <<BT>>), has_keyword)
                  ELSE <<>>
        direct == first_where(split(text, <<NL>>), starts_with_keyword)
    IN  IF contains(lower(text), fence_sql)
        THEN replace(fenced, your_table_name, store_sales_data)
        ELSE IF direct # <<>>
        THEN replace(strip(direct[1]), your_table_name, store_sales_data)
        ELSE IF quoted # <<>>
        THEN replace(strip(quoted[1]), your_table_name, store_sales_data)
        ELSE replace(strip(text), your_table_name, store_sales_data)

extract_sql_code(response) ==
    LET text0 == strip(replace(response, sQLQuery, <<>>))
        text == replace(text0, your_table_name, store_sales_data)
        fenced == strip(split(split(lower(text), fence_sql)[2], fence)[1])
        quoted == IF contains(text, <<BT>>)
                  THEN first_where(split(text, <<BT>>), has_keyword)
                  ELSE <<>>
        direct == first_where(split(text, <<NL>>), starts_with_keyword)
    IN  IF contains(lower(text), fence_sql)
        THEN replace(fenced, your_table_name, store_sales_data)
        ELSE IF quoted # <<>>
        THEN replace(strip(quoted[1]), your_table_name, store_sales_data)
        ELSE IF direct # <<>>
        THEN replace(strip(direct[1]), your_table_name, store_sales_data)
        ELSE replace(strip(text), your_table_name, store_sales_data)

chart == <<"c","h","a","r","t">>
table == <<"t","a","b","l","e">>

\* tag_question_type failing open: an unrecognised answer becomes "chart"
tag_question_type_fail_open(content) ==
    LET response == lower(strip(content))
    IN  IF response \notin {chart, table} THEN chart ELSE response

\* the keys declared by class GraphState
GraphStateKeys ==
    {"question", "sql_query", "data", "tag", "chart_script", "chart_output", "final_output"}

\* `content` is llm.invoke(prompt).content
tag_question_type(content) ==
    LET response == lower(strip(content))
    IN  IF response \notin {chart, table} THEN table ELSE response

python_script == <<"P","y","t","h","o","n"," ","S","c","r","i","p","t",":">>
fence_python == <<BT,BT,BT,"p","y","t","h","o","n",NL>>
fence_close == <<NL,BT,BT,BT>>

python_keywords ==
    << <<"d","e","f"," ">>, <<"i","m","p","o","r","t"," ">>, <<"p","l","t",".">>,
       <<"s","n","s",".">>, <<"p","x",".">>, <<"f","i","g",".">> >>

has_python_keyword(line) == \E k \in 1..Len(python_keywords) : contains(line, python_keywords[k])

extract_python_code(response) ==
    LET text == strip(replace(response, python_script, <<>>))
        open == find(text, fence_python, 1)
        close == IF open = 0 THEN 0 ELSE find(text, fence_close, open + Len(fence_python))
        extracted_code == filter(split(text, <<NL>>), has_python_keyword)
    IN  IF close # 0
        THEN strip(SubSeq(text, open + Len(fence_python), close - 1))
        ELSE IF extracted_code # <<>>
        THEN strip(join(extracted_code, <<NL>>))
        ELSE strip(text)

is_comment_line(line) == startswith(strip(line), <<"-","-">>)
not_comment_line(line) == ~is_comment_line(line)
not_blank(stmt) == strip(stmt) # <<>>

split_sql_statements(sql_text) ==
    IF sql_text = <<>> THEN <<>>
    ELSE LET cleaned_lines == filter(split(sql_text, <<NL>>), not_comment_line)
             cleaned_sql == join(cleaned_lines, <<NL>>)
         IN  map(filter(split(cleaned_sql, <<";">>), not_blank), strip)

\* is_multi_statement_sql looking for a terminator instead of counting statements
is_multi_statement_sql_any_terminator(sql_query) == contains(sql_query, <<";">>)

is_multi_statement_sql(sql_query) ==
    IF sql_query = <<>> THEN FALSE
    ELSE Len(split_sql_statements(sql_query)) > 1

unknown_table == <<"U","n","k","n","o","w","n"," ","T","a","b","l","e">>

\* re.search(r'FROM\s+(\w+)', s, re.IGNORECASE) matching at position i: the end of \s+
from_ws_end(s, i) == run_end(s, i + 4, Whitespace)
from_at(s, i) ==
    /\ MatchAt(lower(s), <<"f","r","o","m">>, i)
    /\ from_ws_end(s, i) >= i + 4
    /\ run_end(s, from_ws_end(s, i) + 1, WordChars) >= from_ws_end(s, i) + 1

\* re.search(r'--.*?(\w+)\s+table', s, re.IGNORECASE) with "--" at i and the group at j
comment_at(s, i, j) ==
    /\ MatchAt(s, <<"-","-">>, i)
    /\ j >= i + 2
    /\ \A k \in (i + 2)..(j - 1) : s[k] # NL
    /\ run_end(s, j, WordChars) >= j
    /\ run_end(s, run_end(s, j, WordChars) + 1, Whitespace) >= run_end(s, j, WordChars) + 1
    /\ MatchAt(lower(s), table, run_end(s, run_end(s, j, WordChars) + 1, Whitespace) + 1)

Least(S) == CHOOSE x \in S : \A y \in S : x <= y

extract_table_name_from_sql(sql_statement) ==
    LET s == sql_statement
        froms == {i \in 1..Len(s) : from_at(s, i)}
        comments == {i \in 1..Len(s) : \E j \in 1..Len(s) : comment_at(s, i, j)}
    IN  IF froms # {}
        THEN LET i == Least(froms)
                 w == from_ws_end(s, i) + 1
             IN  SubSeq(s, w, run_end(s, w, WordChars))
        ELSE IF comments # {}
        THEN LET i == Least(comments)
                 j == Least({j \in 1..Len(s) : comment_at(s, i, j)})
             IN  SubSeq(s, j, run_end(s, j, WordChars))
        ELSE unknown_table

---------------------------------------------------------------------------
(* Python values held in the GraphState *)

\* a dict is a function from the keys present to their values
Put(d, k, v) == [x \in DOMAIN d \cup {k} |-> IF x = k THEN v ELSE d[x]]
Has(d, k) == k \in DOMAIN d

\* values of the "data" dict: lists and the bool flag, told apart as Python does
PyList(xs) == [t |-> "list", v |-> xs]
PyBool(b) == [t |-> "bool", v |-> b]
Truthy(x) == IF x.t = "bool" THEN x.v ELSE x.v # <<>>

EmptyDict == <<>>

\* {col: df[col].tolist() for col in df.columns}; a DataFrame read from the database is
\* a function from its column names to the cells of each column
tolist(df) == [col \in DOMAIN df |-> PyList(df[col])]

\* pd.DataFrame(d) raises ValueError for columns of different lengths and for a dict of
\* scalars only
ListLengths(d) == {Len(d[c].v) : c \in {c \in DOMAIN d : d[c].t = "list"}}
DataFrameOk(d) ==
    /\ Cardinality(ListLengths(d)) <= 1
    /\ DOMAIN d # {} => ListLengths(d) # {}

\* pd.DataFrame(d): scalars are repeated down the rows
DataFrame(d) ==
    [c \in DOMAIN d |->
        IF d[c].t = "list" THEN d[c].v
        ELSE [i \in 1..(CHOOSE n \in ListLengths(d) : TRUE) |-> d[c].v]]

\* str(n) for the small integers of the model
RECURSIVE str_int(_)
str_int(n) ==
    LET digits == <<"0","1","2","3","4","5","6","7","8","9">>
    IN  IF n < 10 THEN <<digits[n + 1]>>
        ELSE str_int(n \div 10) \o <<digits[(n % 10) + 1]>>

---------------------------------------------------------------------------
(* sql_agent_langgraph.py: node functions *)

\* process_question; `content` is the model's answer to the classification prompt
process_question(s, content) == Put(s, "tag", tag_question_type(content))

\* generate_sql; `raw_sql` is what sql_generator.invoke returned
generate_sql(s, raw_sql) == Put(s, "sql_query", extract_sql_code(raw_sql))

error_in_statement ==
    <<"E","r","r","o","r"," ","i","n"," ","S","t","a","t","e","m","e","n","t"," ">>

\* the statements convert_dataframe hands to pd.read_sql, in order
read_sql_calls(sql_query) ==
    IF is_multi_statement_sql(sql_query) THEN split_sql_statements(sql_query)
    ELSE <<sql_query>>

\* the for loop labelling a failure with the enumerate index itself
statement_result_zero_based(i, statement, outcome) ==
    IF outcome.kind = "rows"
    THEN [table_name |-> extract_table_name_from_sql(statement),
          dataframe |-> tolist(outcome.df),
          sql_statement |-> statement]
    ELSE [table_name |-> error_in_statement \o str_int(i - 1),
          error |-> outcome.message,
          sql_statement |-> statement]

\* body of the for loop for statement number i (enumerate index i - 1); `outcome` is
\* what pd.read_sql does with it
statement_result(i, statement, outcome) ==
    IF outcome.kind = "rows"
    THEN [table_name |-> extract_table_name_from_sql(statement),
          dataframe |-> tolist(outcome.df),
          sql_statement |-> statement]
    ELSE [table_name |-> error_in_statement \o str_int(i),
          error |-> outcome.message,
          sql_statement |-> statement]

\* the for loop with the try/except around the whole loop: the first failing statement
\* ends the batch
RECURSIVE run_statements_stop_at_failure(_, _, _)
run_statements_stop_at_failure(statements, outcomes, i) ==
    IF i > Len(statements) THEN [tables |-> <<>>, calls |-> <<>>]
    ELSE LET rest == IF outcomes[i].kind = "rows"
                     THEN run_statements_stop_at_failure(statements, outcomes, i + 1)
                     ELSE [tables |-> <<>>, calls |-> <<>>]
         IN  [tables |-> <<statement_result(i, statements[i], outcomes[i])>> \o rest.tables,
              calls |-> <<[statement |-> statements[i], kind |-> outcomes[i].kind]>>
                          \o rest.calls]

\* the for loop from statement i on: the entries appended and the read_sql calls made
RECURSIVE run_statements(_, _, _)
run_statements(statements, outcomes, i) ==
    IF i > Len(statements) THEN [tables |-> <<>>, calls |-> <<>>]
    ELSE LET rest == run_statements(statements, outcomes, i + 1)
         IN  [tables |-> <<statement_result(i, statements[i], outcomes[i])>> \o rest.tables,
              calls |-> <<[statement |-> statements[i], kind |-> outcomes[i].kind]>>
                          \o rest.calls]

\* convert_dataframe with the single-statement read inside a try/except that returns
\* the state as it was
convert_dataframe_swallows_failure(s, outcomes) ==
    IF ~Has(s, "sql_query")
    THEN [raised |-> TRUE, state |-> s, calls |-> <<>>]
    ELSE LET sql_query == s["sql_query"] IN
         IF is_multi_statement_sql(sql_query)
         THEN LET loop == run_statements(split_sql_statements(sql_query), outcomes, 1)
              IN  [raised |-> FALSE,
                   state |-> Put(s, "data", [multi_table |-> PyBool(TRUE),
                                             tables |-> PyList(loop.tables)]),
                   calls |-> loop.calls]
         ELSE [raised |-> FALSE,
               state |-> IF outcomes[1].kind = "rows"
                         THEN Put(s, "data", tolist(outcomes[1].df))
                         ELSE s,
               calls |-> <<[statement |-> sql_query, kind |-> outcomes[1].kind]>>]

\* convert_dataframe; outcomes[i] is what the i-th pd.read_sql call does.  The result
\* tells whether an exception left the function, the state returned and the calls made.
convert_dataframe(s, outcomes) ==
    IF ~Has(s, "sql_query")
    THEN [raised |-> TRUE, state |-> s, calls |-> <<>>]
    ELSE LET sql_query == s["sql_query"] IN
         IF is_multi_statement_sql(sql_query)
         THEN LET loop == run_statements(split_sql_statements(sql_query), outcomes, 1)
              IN  [raised |-> FALSE,
                   state |-> Put(s, "data", [multi_table |-> PyBool(TRUE),
                                             tables |-> PyList(loop.tables)]),
                   calls |-> loop.calls]
         ELSE [raised |-> outcomes[1].kind # "rows",
               state |-> IF outcomes[1].kind = "rows"
                         THEN Put(s, "data", tolist(outcomes[1].df))
                         ELSE s,
               calls |-> <<[statement |-> sql_query, kind |-> outcomes[1].kind]>>]

\* conditional_router ignoring the tag
conditional_router_always_chart(s) == Put(s, "next", chart)

conditional_router(s) == Put(s, "next", IF Has(s, "tag") THEN s["tag"] ELSE table)

no_dataframe ==
    <<"E","r","r","o","r",":"," ","N","o"," ","D","a","t","a","F","r","a","m","e"," ",
     "i","n"," ","s","t","a","t","e",".">>

\* generate_chart_instructions looking for the data under the key "dataframe"
chart_needs_llm_wrong_key(s) == Has(s, "dataframe")

\* generate_chart_instructions asks the model only when the state holds data
chart_needs_llm(s) == Has(s, "data")

\* the prompt embeds the question, list(data.keys()) and, in its last lines, {data}
chart_prompt(s) ==
    [question |-> s["question"], columns |-> DOMAIN s["data"], data |-> s["data"]]

\* generate_chart_instructions; `content` is the model's answer (unused without data)
generate_chart_instructions(s, content) ==
    IF ~Has(s, "data") THEN Put(s, "chart_script", no_dataframe)
    ELSE Put(s, "chart_script", extract_python_code(content))

Error == <<"E","r","r","o","r">>
no_chart_script ==
    <<"E","r","r","o","r",":"," ","N","o"," ","c","h","a","r","t"," ","s","c","r","i",
     "p","t"," ","a","v","a","i","l","a","b","l","e">>
error_executing ==
    <<"E","r","r","o","r"," ","e","x","e","c","u","t","i","n","g"," ","c","h","a","r",
     "t"," ","c","o","d","e",":"," ">>
generated_charts ==
    <<"g","e","n","e","r","a","t","e","d","_","c","h","a","r","t","s","/","c","h","a",
     "r","t","_">>
png == <<".","p","n","g">>

\* os.path.join(output_dir, f'chart_{timestamp}_{random_str}.png')
output_path(timestamp, random_str) ==
    generated_charts \o str_int(timestamp) \o <<"_">> \o random_str \o png

\* str(e) of the exception raised at each step inside the try block
exception_text(step) ==
    CASE step = "figure" -> <<"f","i","g","u","r","e">>
      [] step = "exec" -> <<"s","c","r","i","p","t">>
      [] step = "save" -> <<"s","a","v","e">>

\* the dict handed to exec as the globals of the script
local_namespace == {"df", "plt", "pd", "np"}

\* some names of the builtins module
Builtins == {"__import__", "open", "eval", "print"}

\* exec(source, globals): a globals dict without the key __builtins__ is given a
\* reference to the builtins module under that key before the code runs
exec_globals(namespace) == namespace \cup {"__builtins__"}

\* the names the executed code can resolve: its globals, then the builtins
resolvable(namespace) == exec_globals(namespace) \cup Builtins

NotCalled == [outcome |-> "none", executed |-> FALSE, opened |-> 0]

\* execute_chart_code testing only `not chart_script`, without the startswith("Error") test
execute_chart_code_runs_error_text(s, open, timestamp, env) ==
    LET chart_script == IF Has(s, "chart_script") THEN s["chart_script"] ELSE <<>>
        df_data == IF Has(s, "data") THEN s["data"] ELSE EmptyDict
        path == output_path(timestamp, env.random_str)
        ran == env.fail_at \in {"none", "exec", "save"}
    IN  IF chart_script = <<>>
        THEN [raised |-> FALSE,
              state |-> Put(s, "chart_output", no_chart_script),
              figs |-> open,
              written |-> {},
              log |-> [outcome |-> "skipped", executed |-> FALSE, opened |-> 0]]
        ELSE IF ~DataFrameOk(df_data)
        THEN [raised |-> TRUE,
              state |-> s,
              figs |-> open,
              written |-> {},
              log |-> [outcome |-> "rebuild", executed |-> FALSE, opened |-> 0]]
        ELSE IF env.fail_at = "none"
        THEN [raised |-> FALSE,
              state |-> Put(s, "chart_output", path),
              figs |-> 0,
              written |-> {path},
              log |-> [outcome |-> "ok", executed |-> TRUE, opened |-> 1 + env.extra]]
        ELSE [raised |-> FALSE,
              state |-> Put(s, "chart_output", error_executing \o exception_text(env.fail_at)),
              figs |-> 0,
              written |-> {},
              log |-> [outcome |-> env.fail_at,
                       executed |-> ran,
                       opened |-> IF env.fail_at = "figure" THEN 0 ELSE 1 + env.extra]]

\* execute_chart_code.  `open` is the number of figures open in pyplot at the call,
\* `timestamp` is int(time.time()); env tells what the environment does: the step of
\* the try block that raises an Exception ("none" when all succeed; "save" is
\* os.makedirs or plt.savefig), the number of
\* further figures the script opens, and the random suffix drawn.
execute_chart_code(s, open, timestamp, env) ==
    LET chart_script == IF Has(s, "chart_script") THEN s["chart_script"] ELSE <<>>
        df_data == IF Has(s, "data") THEN s["data"] ELSE EmptyDict
        path == output_path(timestamp, env.random_str)
        ran == env.fail_at \in {"none", "exec", "save"}
    IN  IF chart_script = <<>> \/ startswith(chart_script, Error)
        THEN [raised |-> FALSE,
              state |-> Put(s, "chart_output", no_chart_script),
              figs |-> open,
              written |-> {},
              log |-> [outcome |-> "skipped", executed |-> FALSE, opened |-> 0]]
        ELSE IF ~DataFrameOk(df_data)
        THEN [raised |-> TRUE,
              state |-> s,
              figs |-> open,
              written |-> {},
              log |-> [outcome |-> "rebuild", executed |-> FALSE, opened |-> 0]]
        ELSE IF env.fail_at = "none"
        THEN [raised |-> FALSE,
              state |-> Put(s, "chart_output", path),
              figs |-> 0,
              written |-> {path},
              log |-> [outcome |-> "ok", executed |-> TRUE, opened |-> 1 + env.extra]]
        ELSE [raised |-> FALSE,
              state |-> Put(s, "chart_output", error_executing \o exception_text(env.fail_at)),
              figs |-> 0,
              written |-> {},
              log |-> [outcome |-> env.fail_at,
                       executed |-> ran,
                       opened |-> IF env.fail_at = "figure" THEN 0 ELSE 1 + env.extra]]

error_creating ==
    <<"E","r","r","o","r"," ","c","r","e","a","t","i","n","g"," ","D","a","t","a","F",
     "r","a","m","e",":"," ">>
no_valid_output ==
    <<"N","o"," ","v","a","l","i","d"," ","o","u","t","p","u","t"," ","f","o","u","n",
     "d",".">>

\* str(e) of the KeyError for data["tables"] and of the ValueError of pd.DataFrame
key_error_tables == <<"'","t","a","b","l","e","s","'">>
value_error == <<"V","a","l","u","e","E","r","r","o","r">>

\* the "data" part of state_printer: the try block and its except clause
tabular_outputs(s) ==
    IF ~Has(s, "data") THEN EmptyDict
    ELSE LET data == s["data"] IN
         IF Has(data, "multi_table") /\ Truthy(data["multi_table"])
         THEN IF Has(data, "tables")
              THEN [multi_table_data |-> data["tables"]]
              ELSE [error |-> error_creating \o key_error_tables]
         ELSE IF DataFrameOk(data)
              THEN [dataframe |-> DataFrame(data)]
              ELSE [error |-> error_creating \o value_error]

\* state_printer without the final "if not outputs" fallback
state_printer_no_message(s) ==
    LET with_data == tabular_outputs(s)
    IN  Put(s, "final_output",
            IF Has(s, "chart_output") THEN Put(with_data, "chart", s["chart_output"])
            ELSE with_data)

\* state_printer with the chart check as an elif of the data check turned around: a
\* chart slot replaces the tabular entry
state_printer_chart_hides_table(s) ==
    LET outputs == IF Has(s, "chart_output") THEN [chart |-> s["chart_output"]]
                   ELSE tabular_outputs(s)
    IN  Put(s, "final_output",
            IF DOMAIN outputs = {} THEN [message |-> no_valid_output] ELSE outputs)

\* state_printer adding the message without the "if not outputs" test
state_printer_always_message(s) ==
    LET with_data == tabular_outputs(s)
        outputs == IF Has(s, "chart_output")
                   THEN Put(with_data, "chart", s["chart_output"])
                   ELSE with_data
    IN  Put(s, "final_output", Put(outputs, "message", no_valid_output))

state_printer(s) ==
    LET with_data == tabular_outputs(s)
        outputs == IF Has(s, "chart_output")
                   THEN Put(with_data, "chart", s["chart_output"])
                   ELSE with_data
    IN  Put(s, "final_output",
            IF DOMAIN outputs = {} THEN [message |-> no_valid_output] ELSE outputs)

---------------------------------------------------------------------------
(* database_manager.py: the DatabaseManager object *)

None == [t |-> "None"]

\* DatabaseManager.__init__
DatabaseManager ==
    [current_engine |-> None, current_conn |-> None, current_db_type |-> None,
     current_db_uri |-> None, inspector |-> None]

\* the manager's fields refer to at most two engines at a time: the current one and the
\* one the inspector was made for
EngineIds == {1, 2}
NoEngines == [i \in EngineIds |-> None]

\* an engine no field refers to any more is gone
referenced(m, i) ==
    \/ m.current_engine = [t |-> "Engine", id |-> i]
    \/ m.current_conn = [t |-> "Connection", engine |-> i]
    \/ m.inspector = [t |-> "Inspector", engine |-> i]
collect(m, heap) == [i \in EngineIds |-> IF referenced(m, i) THEN heap[i] ELSE None]

\* _create_connection_uri for the file databases: the scheme followed by the path; None
\* for an unknown type
create_connection_uri(db_type, params) ==
    LET db_path == IF Has(params, "db_path") THEN params["db_path"] ELSE ":memory:"
    IN  IF lower(db_type) = <<"s","q","l","i","t","e">>
        THEN [t |-> "str", v |-> <<"sqlite:///", db_path>>]
        ELSE IF lower(db_type) = <<"d","u","c","k","d","b">>
        THEN [t |-> "str", v |-> <<"duckdb:///", db_path>>]
        ELSE None

\* close_connection: closes and forgets the connection, disposes and forgets the
\* engine; the other three fields are left as they are
close_connection(m, heap) ==
    LET closed == [m EXCEPT !.current_conn = None]
        disposed == IF m.current_engine = None THEN heap
                    ELSE [heap EXCEPT ![m.current_engine.id].disposed = TRUE]
        forgotten == [closed EXCEPT !.current_engine = None]
    IN  [manager |-> forgotten, engines |-> collect(forgotten, disposed)]

\* connect.  `env` names the line of the try block that raises: "create_engine",
\* "connect" (engine.connect()), "execute" (SELECT 1), or "none"
connect(m, heap, db_type, params, env) ==
    LET c == close_connection(m, heap)
        db_uri == create_connection_uri(db_type, params)
        id == CHOOSE i \in EngineIds : ~referenced(c.manager, i)
        engine == [t |-> "Engine", id |-> id]
        made == [c.engines EXCEPT ![id] = [uri |-> db_uri, disposed |-> FALSE]]
        with_engine == [c.manager EXCEPT !.current_engine = engine]
        with_conn == [with_engine EXCEPT
                         !.current_conn = [t |-> "Connection", engine |-> id]]
        connected == [with_conn EXCEPT
                         !.current_db_type = [t |-> "str", v |-> db_type],
                         !.current_db_uri = db_uri,
                         !.inspector = [t |-> "Inspector", engine |-> id]]
        failed(at) == close_connection(at, made)
        error == [success |-> FALSE, message |-> <<"Connection error: ", env>>]
    IN  IF db_uri = None
        THEN [manager |-> c.manager, engines |-> c.engines,
              result |-> [success |-> FALSE,
                          message |-> <<"Unsupported database type: ", db_type>>]]
        ELSE IF env = "create_engine"
        THEN [manager |-> c.manager, engines |-> c.engines, result |-> error]
        ELSE IF env = "connect"
        THEN [manager |-> failed(with_engine).manager,
              engines |-> failed(with_engine).engines, result |-> error]
        ELSE IF env = "execute"
        THEN [manager |-> failed(with_conn).manager,
              engines |-> failed(with_conn).engines, result |-> error]
        ELSE [manager |-> connected, engines |-> collect(connected, made),
              result |-> [success |-> TRUE,
                          message |-> <<"Connected successfully to ", db_type>>]]

get_connection_uri(m) == m.current_db_uri

\* get_tables: the table names of the database the inspector's engine points at, read
\* through that engine; [] without inspector
get_tables(m, heap) ==
    IF m.inspector # None
    THEN [t |-> "list", of |-> heap[m.inspector.engine].uri]
    ELSE [t |-> "list", of |-> None]

---------------------------------------------------------------------------
(* build_dag: the compiled graph *)

Nodes == {"process_question", "generate_sql", "convert_dataframe", "conditional_router",
          "generate_chart_instructions", "execute_chart_code", "state_printer"}

entry_point == "process_question"

\* build_dag with the edge out of generate_chart_instructions going straight to
\* state_printer
next_node_skips_execution(node, s) ==
    CASE node = "process_question" -> "generate_sql"
      [] node = "generate_sql" -> "convert_dataframe"
      [] node = "convert_dataframe" -> "conditional_router"
      [] node = "conditional_router" ->
            IF s["next"] = table THEN "state_printer"
            ELSE IF s["next"] = chart THEN "generate_chart_instructions"
            ELSE "Raised"
      [] node = "generate_chart_instructions" -> "state_printer"
      [] node = "execute_chart_code" -> "state_printer"
      [] node = "state_printer" -> "END"

\* the edge taken after `node` returned state s; the conditional edge looks s["next"] up
\* in its mapping, and LangGraph raises when the value is not a key of the mapping
next_node(node, s) ==
    CASE node = "process_question" -> "generate_sql"
      [] node = "generate_sql" -> "convert_dataframe"
      [] node = "convert_dataframe" -> "conditional_router"
      [] node = "conditional_router" ->
            IF s["next"] = table THEN "state_printer"
            ELSE IF s["next"] = chart THEN "generate_chart_instructions"
            ELSE "Raised"
      [] node = "generate_chart_instructions" -> "execute_chart_code"
      [] node = "execute_chart_code" -> "state_printer"
      [] node = "state_printer" -> "END"

\* where control goes when `node` returns s
after(node, s) == IF caller = "dag" THEN next_node(node, s) ELSE "Returned"

---------------------------------------------------------------------------
(* The environment: questions, the language model, the database, the chart script *)

Questions == {"q1"}

\* answers of the model to the classification prompt
ClassifyAnswers ==
    {chart, <<" ","C","H","A","R","T",NL>>, <<"T","a","b","l","e">>,
     <<"m","a","y","b","e">>, <<>>}

\* texts returned by the SQL generation chain
SqlAnswers ==
    {<<"S","E","L","E","C","T"," ","a"," ","F","R","O","M"," ","t">>,
     <<>>,
     <<BT,BT,BT,"s","q","l",NL,"S","E","L","E","C","T"," ","a"," ","F","R","O","M"," ","t",";",NL,"S","E","L","E","C","T"," ","2",NL,BT,BT,BT>>}

\* answers of the model to the chart prompt
ChartAnswers ==
    {<<BT,BT,BT,"p","y","t","h","o","n",NL,"p","l","t",".","p","l","o","t","(",")",NL,BT,BT,BT>>,
     <<"E","r","r","o","r",":"," ","p","l","t",".">>,
     <<>>}

\* tables the database returns
DbTables == {[a |-> <<1, 2>>], [a |-> <<3>>, b |-> <<4>>]}

\* what one pd.read_sql call does: rows, an error of the statement (rejected by the
\* database), or a failure of the connection
DbOutcomes ==
    {[kind |-> "rows", df |-> df] : df \in DbTables}
    \cup {[kind |-> "sql_error", message |-> <<"s","q","l">>],
          [kind |-> "conn_error", message |-> <<"c","o","n","n">>]}

\* a text without any statement never comes back as rows
CanAnswer(statement, outcome) == outcome.kind = "rows" => strip(statement) # <<>>

RandomStrs == {<<"a","a","a","a","a","a">>, <<"b","7","b","7","b","7">>}

ChartEnvs ==
    [fail_at : {"none", "figure", "exec", "save"},
     extra : 0..MaxScriptFigs,
     random_str : RandomStrs]

---------------------------------------------------------------------------
(* One action per node of the graph *)

Enter(node) == pc = node /\ trace' = Append(trace, node)

Raise == pc' = "Raised" /\ UNCHANGED state

\* the user sends a question: app.stream({"question": user_query})
NewQuestion ==
    /\ caller = "dag"
    /\ pc \in {"Idle", "END", "Raised"}
    /\ runs < MaxRuns
    /\ \E q \in Questions : state' = [question |-> q]
    /\ pc' = entry_point
    /\ runs' = runs + 1
    /\ trace' = <<>>
    /\ db_log' = <<>>
    /\ llm_calls' = <<>>
    /\ last_response' = <<>>
    /\ exec_log' = NotCalled
    /\ pre_figs' = figs
    /\ UNCHANGED <<caller, figs, files, now>>
    /\ UNCHANGED <<saves, call, sessions, canvas, db_manager, engines, session_state>>

ProcessQuestion ==
    /\ Enter("process_question")
    /\ llm_calls' = Append(llm_calls, [kind |-> "classify",
                                       prompt |-> [question |-> state["question"]]])
    /\ \/ \E content \in ClassifyAnswers :
            /\ state' = process_question(state, content)
            /\ pc' = after("process_question", state')
            /\ last_response' = content
       \/ Raise /\ UNCHANGED last_response
    /\ UNCHANGED <<caller, db_log, exec_log, figs, pre_figs, files, now, runs>>
    /\ UNCHANGED <<saves, call, sessions, canvas, db_manager, engines, session_state>>

GenerateSql ==
    /\ Enter("generate_sql")
    /\ llm_calls' = Append(llm_calls, [kind |-> "sql",
                                       prompt |-> [question |-> state["question"]]])
    /\ \/ \E raw_sql \in SqlAnswers :
            /\ state' = generate_sql(state, raw_sql)
            /\ pc' = after("generate_sql", state')
            /\ last_response' = raw_sql
       \/ Raise /\ UNCHANGED last_response
    /\ UNCHANGED <<caller, db_log, exec_log, figs, pre_figs, files, now, runs>>
    /\ UNCHANGED <<saves, call, sessions, canvas, db_manager, engines, session_state>>

ConvertDataframe ==
    /\ Enter("convert_dataframe")
    /\ LET calls == IF Has(state, "sql_query") THEN read_sql_calls(state["sql_query"])
                    ELSE <<>>
       IN  \E outcomes \in [1..Len(calls) -> DbOutcomes] :
             /\ \A i \in 1..Len(calls) : CanAnswer(calls[i], outcomes[i])
             /\ LET r == convert_dataframe(state, outcomes)
                IN  /\ state' = r.state
                    /\ db_log' = r.calls
                    /\ pc' = IF r.raised THEN "Raised"
                             ELSE after("convert_dataframe", r.state)
    /\ UNCHANGED <<caller, llm_calls, last_response, exec_log, figs, pre_figs, files,
                   now, runs>>
    /\ UNCHANGED <<saves, call, sessions, canvas, db_manager, engines, session_state>>

ConditionalRouter ==
    /\ Enter("conditional_router")
    /\ state' = conditional_router(state)
    /\ pc' = after("conditional_router", state')
    /\ UNCHANGED <<caller, db_log, llm_calls, last_response, exec_log, figs, pre_figs,
                   files, now, runs>>
    /\ UNCHANGED <<saves, call, sessions, canvas, db_manager, engines, session_state>>

GenerateChartInstructions ==
    /\ Enter("generate_chart_instructions")
    /\ \/ /\ ~chart_needs_llm(state)
          /\ state' = generate_chart_instructions(state, <<>>)
          /\ pc' = after("generate_chart_instructions", state')
          /\ UNCHANGED <<llm_calls, last_response>>
       \/ /\ chart_needs_llm(state)
          /\ llm_calls' = Append(llm_calls, [kind |-> "chart", prompt |-> chart_prompt(state)])
          /\ \/ \E content \in ChartAnswers :
                  /\ state' = generate_chart_instructions(state, content)
                  /\ pc' = after("generate_chart_instructions", state')
                  /\ last_response' = content
             \/ Raise /\ UNCHANGED last_response
    /\ UNCHANGED <<caller, db_log, exec_log, figs, pre_figs, files, now, runs>>
    /\ UNCHANGED <<saves, call, sessions, canvas, db_manager, engines, session_state>>

ExecuteChartCode ==
    /\ Enter("execute_chart_code")
    /\ \E env \in ChartEnvs :
         LET r == execute_chart_code(state, figs, now, env)
         IN  /\ state' = r.state
             /\ figs' = r.figs
             /\ files' = files \cup r.written
             /\ saves' = IF r.written = {} THEN saves
                         ELSE Append(saves, r.state["chart_output"])
             /\ exec_log' = r.log
             /\ pc' = IF r.raised THEN "Raised" ELSE after("execute_chart_code", r.state)
    /\ pre_figs' = figs
    /\ UNCHANGED <<caller, db_log, llm_calls, last_response, now, runs>>
    /\ UNCHANGED <<call, sessions, canvas, db_manager, engines, session_state>>

StatePrinter ==
    /\ Enter("state_printer")
    /\ state' = state_printer(state)
    /\ pc' = after("state_printer", state')
    /\ UNCHANGED <<caller, db_log, llm_calls, last_response, exec_log, figs, pre_figs,
                   files, now, runs>>
    /\ UNCHANGED <<saves, call, sessions, canvas, db_manager, engines, session_state>>

\* the clock read by time.time() advances
Tick ==
    /\ now < MaxTime
    /\ now' = now + 1
    /\ UNCHANGED <<caller, pc, state, trace, db_log, llm_calls, last_response, exec_log,
                   figs, pre_figs, files, runs>>
    /\ UNCHANGED <<saves, call, sessions, canvas, db_manager, engines, session_state>>

NodeStep ==
    \/ ProcessQuestion
    \/ GenerateSql
    \/ ConvertDataframe
    \/ ConditionalRouter
    \/ GenerateChartInstructions
    \/ ExecuteChartCode
    \/ StatePrinter

\* no utils.py function has been called on its own
NoCall == [fn |-> "none"]

---------------------------------------------------------------------------
(* The pipeline: questions answered one after another by the compiled graph *)

Init ==
    /\ caller = "dag"
    /\ pc = "Idle"
    /\ state = EmptyDict
    /\ trace = <<>>
    /\ db_log = <<>>
    /\ llm_calls = <<>>
    /\ last_response = <<>>
    /\ exec_log = NotCalled
    /\ figs = 0
    /\ pre_figs = 0
    /\ files = {}
    /\ now = 0
    /\ runs = 0
    /\ saves = <<>>
    /\ call = NoCall
    /\ sessions = <<>>
    /\ canvas = <<>>
    /\ db_manager = DatabaseManager
    /\ engines = NoEngines
    /\ session_state = EmptyDict

Next == NewQuestion \/ NodeStep \/ Tick

Spec == Init /\ [][Next]_vars

---------------------------------------------------------------------------
(* The node functions called directly: each function applied once to a GraphState, *)
(* in a process whose pyplot state may already hold open figures                  *)

Merge(a, b) == [x \in DOMAIN a \cup DOMAIN b |-> IF x \in DOMAIN b THEN b[x] ELSE a[x]]
Restrict(d, keys) == [x \in DOMAIN d \cap keys |-> d[x]]
Opt(k, Vals) == {EmptyDict} \cup {[x \in {k} |-> v] : v \in Vals}

select_a == <<"S","E","L","E","C","T"," ","a"," ","F","R","O","M"," ","t">>
plot_script == <<"p","l","t",".","p","l","o","t","(",")">>

StageSql ==
    {<<>>,
     select_a,
     <<"S","E","L","E","C","T"," ","1",";",NL,"-","-"," ","c",NL,"S","E","L","E","C","T"," ","2",";">>,
     <<"S","E","L","E","C","T"," ","1",";","S","E","L","E","C","T"," ","2",";","S","E","L","E","C","T"," ","3">>,
     <<"S","E","L","E","C","T"," ","1",";"," ","-","-"," ","c","o","m","m","e","n","t">>}

multi_example ==
    [multi_table |-> PyBool(TRUE),
     tables |-> PyList(<<[table_name |-> <<"t">>,
                          dataframe |-> [a |-> PyList(<<1, 2>>)],
                          sql_statement |-> select_a],
                         [table_name |-> error_in_statement \o str_int(2),
                          error |-> <<"s","q","l">>,
                          sql_statement |-> <<"S","E","L","E","C","T">>]>>)]

\* dicts a caller can pass as "data": a table, a table with the same column and other
\* rows, a multi-table result, columns of
\* different lengths, and a table with a column named like the multi-table flag
StageData ==
    {[a |-> PyList(<<1, 2>>)],
     [a |-> PyList(<<5, 6>>)],
     multi_example,
     [a |-> PyList(<<1, 2>>), b |-> PyList(<<3>>)],
     [multi_table |-> PyList(<<1>>)]}

StageTags == {chart, table}
StageScripts == {<<>>, no_dataframe, plot_script}
StageChartOutputs == {no_chart_script, output_path(0, <<"a","a","a","a","a","a">>)}

\* the keys of the state each node function reads, besides "question"
Reads(node) ==
    CASE node = "convert_dataframe" -> {"sql_query"}
      [] node = "conditional_router" -> {"tag"}
      [] node = "generate_chart_instructions" -> {"data"}
      [] node = "execute_chart_code" -> {"chart_script", "data"}
      [] node = "state_printer" -> {"data", "chart_output"}
      [] OTHER -> {}

StageParts ==
    {Merge(Merge(Merge(Merge(q, d), g), c), o) :
        q \in Opt("sql_query", StageSql), d \in Opt("data", StageData),
        g \in Opt("tag", StageTags), c \in Opt("chart_script", StageScripts),
        o \in Opt("chart_output", StageChartOutputs)}

\* the keys a node does not read are either all absent or all set
Fillers ==
    {[question |-> "q1"],
     [question |-> "q1", sql_query |-> select_a, data |-> [a |-> PyList(<<1, 2>>)],
      tag |-> chart, chart_script |-> plot_script, chart_output |-> no_chart_script]}

StageInputs(node) ==
    {Merge(Restrict(f, DOMAIN f \ Reads(node)), p) :
        f \in Fillers, p \in {x \in StageParts : DOMAIN x \subseteq Reads(node)}}

StageInit ==
    /\ caller = "direct"
    /\ pc \in Nodes
    /\ state \in StageInputs(pc)
    /\ trace = <<>>
    /\ db_log = <<>>
    /\ llm_calls = <<>>
    /\ last_response = <<>>
    /\ exec_log = NotCalled
    /\ figs \in 0..MaxOpenFigs
    /\ pre_figs = figs
    /\ files = {}
    /\ now = 0
    /\ runs = 0
    /\ saves = <<>>
    /\ call = NoCall
    /\ sessions = <<>>
    /\ canvas = <<>>
    /\ db_manager = DatabaseManager
    /\ engines = NoEngines
    /\ session_state = EmptyDict

StageSpec == StageInit /\ [][NodeStep]_vars

---------------------------------------------------------------------------
(* utils.py functions called on their own *)

MaxFragments == 5

\* pieces of a SQL blob: two statements, the terminator, a comment up to the end of
\* its line and a space
SqlFragments ==
    {<<"S","E","L","E","C","T"," ","1">>,
     <<";">>,
     <<" ","-","-"," ","c","o","m","m","e","n","t",NL>>,
     <<"S","E","L","E","C","T"," ","2">>,
     <<" ">>}

\* concatenations of at most n fragments
RECURSIVE Blobs(_)
Blobs(n) ==
    IF n = 0 THEN {<<>>}
    ELSE LET shorter == Blobs(n - 1)
         IN  shorter \cup {b \o f : b \in shorter, f \in SqlFragments}

\* a model output: some prose or nothing, then the query in one of the observed
\* styles, then some more text or nothing
ResponseHeads ==
    {<<>>,
     <<"S","t","a","r","t"," ","w","i","t","h"," ">>,
     <<"x"," ",BT,"S","E","L","E","C","T"," ","2",BT,NL>>,
     <<"S","Q","L","Q","u","e","r","y",":"," ">>}
ResponseBodies ==
    {<<BT,BT,BT,"s","q","l",NL,"S","E","L","E","C","T"," ","a"," ","F","R","O","M"," ","T",NL,BT,BT,BT>>,
     <<BT,"S","E","L","E","C","T"," ","1",BT>>,
     <<"S","E","L","E","C","T"," ","a"," ","F","R","O","M"," ","y","o","u","r","_","t","a","b","l","e","_","n","a","m","e">>,
     <<BT,"a",BT>>,
     <<"n","o">>}
ResponseTails ==
    {<<>>,
     <<NL,"S","E","L","E","C","T"," ","3">>,
     <<" ",BT,"W","I","T","H"," ","x",BT>>}

Responses == {h \o b \o t : h \in ResponseHeads, b \in ResponseBodies, t \in ResponseTails}

Returned(fn) == call.fn = fn /\ Has(call, "result")

SplitSqlStatements ==
    /\ call.fn = "split_sql_statements"
    /\ ~Has(call, "result")
    /\ call' = Put(call, "result", split_sql_statements(call.arg))
    /\ UNCHANGED <<caller, pc, state, trace, db_log, llm_calls, last_response, exec_log,
                   figs, pre_figs, files, now, runs, saves, sessions, canvas,
                   db_manager, engines, session_state>>

IsMultiStatementSql ==
    /\ call.fn = "is_multi_statement_sql"
    /\ ~Has(call, "result")
    /\ call' = Put(call, "result", is_multi_statement_sql(call.arg))
    /\ UNCHANGED <<caller, pc, state, trace, db_log, llm_calls, last_response, exec_log,
                   figs, pre_figs, files, now, runs, saves, sessions, canvas,
                   db_manager, engines, session_state>>

ExtractSqlCode ==
    /\ call.fn = "extract_sql_code"
    /\ ~Has(call, "result")
    /\ call' = Put(call, "result", extract_sql_code(call.arg))
    /\ UNCHANGED <<caller, pc, state, trace, db_log, llm_calls, last_response, exec_log,
                   figs, pre_figs, files, now, runs, saves, sessions, canvas,
                   db_manager, engines, session_state>>

UtilsInit ==
    /\ caller = "utils"
    /\ pc = "Idle"
    /\ state = EmptyDict
    /\ trace = <<>>
    /\ db_log = <<>>
    /\ llm_calls = <<>>
    /\ last_response = <<>>
    /\ exec_log = NotCalled
    /\ figs = 0
    /\ pre_figs = 0
    /\ files = {}
    /\ now = 0
    /\ runs = 0
    /\ saves = <<>>
    /\ sessions = <<>>
    /\ canvas = <<>>
    /\ db_manager = DatabaseManager
    /\ engines = NoEngines
    /\ session_state = EmptyDict
    /\ \/ \E b \in Blobs(MaxFragments) :
            \E fn \in {"split_sql_statements", "is_multi_statement_sql"} :
               call = [fn |-> fn, arg |-> b]
       \/ \E r \in Responses : call = [fn |-> "extract_sql_code", arg |-> r]

UtilsNext == SplitSqlStatements \/ IsMultiStatementSql \/ ExtractSqlCode

UtilsSpec == UtilsInit /\ [][UtilsNext]_vars

---------------------------------------------------------------------------
(* execute_chart_code run by two browser sessions of one process.  The sessions are
   threads over one pyplot state; a thread can be pre-empted between any two of the
   pyplot calls of the function. *)

MaxRenders == 2

SessionIds == {1, 2}

\* plt.close('all')
close_all(figures) == <<>>

\* plt.figure(...): a new empty figure becomes the current one
new_figure(figures) == Append(figures, {})

\* plt.gcf(): the current figure; pyplot creates one when none is open
with_current(figures) == IF figures = <<>> THEN <<{}>> ELSE figures

\* the plotting calls of the script of session i draw on the current figure
draw(figures, i) ==
    LET fs == with_current(figures)
    IN  [fs EXCEPT ![Len(fs)] = @ \cup {i}]

\* execute_chart_code that neither clears nor releases the pyplot state nor opens a
\* figure of its own
render_step_on_shared_figure(figures, line, i) ==
    CASE line = "close_before" -> [figures |-> figures, next |-> "figure"]
      [] line = "figure" -> [figures |-> figures, next |-> "exec"]
      [] line = "exec" -> [figures |-> draw(figures, i), next |-> "savefig"]
      [] line = "savefig" -> [figures |-> with_current(figures), next |-> "close_after"]
      [] line = "close_after" -> [figures |-> figures, next |-> "returned"]

\* the pyplot calls of execute_chart_code in the order of the try path: line 187,
\* 193, 204, 222 and 228/242; each gives the figures left and the call that follows
render_step(figures, line, i) ==
    CASE line = "close_before" -> [figures |-> close_all(figures), next |-> "figure"]
      [] line = "figure" -> [figures |-> new_figure(figures), next |-> "exec"]
      [] line = "exec" -> [figures |-> draw(figures, i), next |-> "savefig"]
      [] line = "savefig" -> [figures |-> with_current(figures), next |-> "close_after"]
      [] line = "close_after" -> [figures |-> close_all(figures), next |-> "returned"]

RenderLines == {"close_before", "figure", "exec", "savefig", "close_after"}

InCall(i) == sessions[i].line \in RenderLines \ {"close_before"}

\* session i makes its next pyplot call; a session that is inside the function while
\* another one moves has overlapped with it
Moved(i, line, saved) ==
    [j \in SessionIds |->
        IF j = i
        THEN [sessions[i] EXCEPT !.line = line,
                                 !.saved = saved,
                                 !.alone = @ /\ \A k \in SessionIds \ {i} : ~InCall(k)]
        ELSE [sessions[j] EXCEPT !.alone = @ /\ ~InCall(j)]]

RenderFrame ==
    UNCHANGED <<caller, pc, state, trace, db_log, llm_calls, last_response, exec_log,
                pre_figs, now, runs, call, db_manager, engines, session_state>>

\* a session whose run reached execute_chart_code with a valid script and data
RenderCall(i) ==
    /\ sessions[i].line \in {"idle", "returned"}
    /\ sessions[i].calls < MaxRenders
    /\ sessions' = [sessions EXCEPT ![i] = [line |-> "close_before", saved |-> <<>>,
                                            alone |-> \A k \in SessionIds \ {i} : ~InCall(k),
                                            calls |-> @.calls + 1]]
    /\ UNCHANGED <<canvas, figs, files, saves>>
    /\ RenderFrame

RenderCloseBefore(i) ==
    /\ sessions[i].line = "close_before"
    /\ LET r == render_step(canvas, "close_before", i)
       IN  canvas' = r.figures /\ sessions' = Moved(i, r.next, sessions[i].saved)
    /\ figs' = Len(canvas')
    /\ UNCHANGED <<files, saves>>
    /\ RenderFrame

RenderFigure(i) ==
    /\ sessions[i].line = "figure"
    /\ LET r == render_step(canvas, "figure", i)
       IN  canvas' = r.figures /\ sessions' = Moved(i, r.next, sessions[i].saved)
    /\ figs' = Len(canvas')
    /\ UNCHANGED <<files, saves>>
    /\ RenderFrame

\* the script runs to its end, or raises an Exception after drawing
RenderExec(i) ==
    /\ sessions[i].line = "exec"
    /\ LET r == render_step(canvas, "exec", i)
       IN  /\ canvas' = r.figures
           /\ \E next \in {r.next, "close_after"} :
                 sessions' = Moved(i, next, sessions[i].saved)
    /\ figs' = Len(canvas')
    /\ UNCHANGED <<files, saves>>
    /\ RenderFrame

\* plt.savefig(output_path): the file gets what the current figure shows
RenderSavefig(i) ==
    /\ sessions[i].line = "savefig"
    /\ LET r == render_step(canvas, "savefig", i)
       IN  /\ canvas' = r.figures
           /\ sessions' = Moved(i, r.next, <<r.figures[Len(r.figures)]>>)
    /\ figs' = Len(canvas')
    /\ \E random_str \in RandomStrs :
          /\ files' = files \cup {output_path(now, random_str)}
          /\ saves' = Append(saves, output_path(now, random_str))
    /\ RenderFrame

RenderCloseAfter(i) ==
    /\ sessions[i].line = "close_after"
    /\ LET r == render_step(canvas, "close_after", i)
       IN  canvas' = r.figures /\ sessions' = Moved(i, r.next, sessions[i].saved)
    /\ figs' = Len(canvas')
    /\ UNCHANGED <<files, saves>>
    /\ RenderFrame

RenderInit ==
    /\ caller = "sessions"
    /\ pc = "Idle"
    /\ state = EmptyDict
    /\ trace = <<>>
    /\ db_log = <<>>
    /\ llm_calls = <<>>
    /\ last_response = <<>>
    /\ exec_log = NotCalled
    /\ figs = 0
    /\ pre_figs = 0
    /\ files = {}
    /\ now = 0
    /\ runs = 0
    /\ saves = <<>>
    /\ call = NoCall
    /\ sessions = [i \in SessionIds |->
                      [line |-> "idle", saved |-> <<>>, alone |-> TRUE, calls |-> 0]]
    /\ canvas = <<>>
    /\ db_manager = DatabaseManager
    /\ engines = NoEngines
    /\ session_state = EmptyDict

RenderNext ==
    \E i \in SessionIds :
       \/ RenderCall(i)
       \/ RenderCloseBefore(i)
       \/ RenderFigure(i)
       \/ RenderExec(i)
       \/ RenderSavefig(i)
       \/ RenderCloseAfter(i)

RenderSpec == RenderInit /\ [][RenderNext]_vars

---------------------------------------------------------------------------
(* The DatabaseManager methods called in any order *)

\* what a caller passes to connect and what the database does with it: a type in any
\* capitalisation or an unknown one, a file path or none
ConnectInputs ==
    [db_type : {<<"s","q","l","i","t","e">>, <<"D","u","c","k","D","B">>,
                <<"a","c","c","e","s","s">>},
     params : {EmptyDict, [db_path |-> "a.db"], [db_path |-> "b.db"]},
     env : {"none", "create_engine", "connect", "execute"}]

ManagerConnect ==
    /\ \E in \in ConnectInputs :
          LET r == connect(db_manager, engines, in.db_type, in.params, in.env)
          IN  /\ db_manager' = r.manager
              /\ engines' = r.engines
              /\ call' = [fn |-> "connect", arg |-> in, result |-> r.result]
    /\ UNCHANGED <<caller, pc, state, trace, db_log, llm_calls, last_response, exec_log,
                   figs, pre_figs, files, now, runs, saves, sessions, canvas,
                   session_state>>

ManagerCloseConnection ==
    /\ db_manager' = close_connection(db_manager, engines).manager
    /\ engines' = close_connection(db_manager, engines).engines
    /\ call' = [fn |-> "close_connection", result |-> None]
    /\ UNCHANGED <<caller, pc, state, trace, db_log, llm_calls, last_response, exec_log,
                   figs, pre_figs, files, now, runs, saves, sessions, canvas,
                   session_state>>

ManagerGetTables ==
    /\ call' = [fn |-> "get_tables", result |-> get_tables(db_manager, engines)]
    /\ UNCHANGED <<db_manager, engines>>
    /\ UNCHANGED <<caller, pc, state, trace, db_log, llm_calls, last_response, exec_log,
                   figs, pre_figs, files, now, runs, saves, sessions, canvas,
                   session_state>>

ManagerInit ==
    /\ caller = "manager"
    /\ pc = "Idle"
    /\ state = EmptyDict
    /\ trace = <<>>
    /\ db_log = <<>>
    /\ llm_calls = <<>>
    /\ last_response = <<>>
    /\ exec_log = NotCalled
    /\ figs = 0
    /\ pre_figs = 0
    /\ files = {}
    /\ now = 0
    /\ runs = 0
    /\ saves = <<>>
    /\ call = NoCall
    /\ sessions = <<>>
    /\ canvas = <<>>
    /\ db_manager = DatabaseManager
    /\ engines = NoEngines
    /\ session_state = EmptyDict

ManagerNext == ManagerConnect \/ ManagerCloseConnection \/ ManagerGetTables

ManagerSpec == ManagerInit /\ [][ManagerNext]_vars

---------------------------------------------------------------------------
(* streamlit_sql_langgraph.py: one browser session; every interaction reruns the script *)

MaxQuestions == 2

\* what the sidebar form passes when "Connect to Database" is clicked, and what the
\* database does
UiInputs ==
    [db_type : {<<"s","q","l","i","t","e">>, <<"d","u","c","k","d","b">>},
     params : {[db_path |-> "a.db"], [db_path |-> "b.db"]},
     env : {"none", "connect"}]

\* render_database_selector from the Connect button on; `click` is None when the button
\* was not pressed in this run of the script
render_database_selector(ss, m, heap, click) ==
    IF click = None
    THEN [session_state |-> ss, manager |-> m, engines |-> heap,
          returned |-> [is_connected |-> FALSE, db_uri |-> None]]
    ELSE LET r == connect(m, heap, click.db_type, click.params, click.env)
         IN  IF r.result.success
             THEN [session_state |->
                      [ss EXCEPT !.is_connected = TRUE,
                                 !.connection_error = <<>>,
                                 !.db_info = [type |-> click.db_type,
                                              params |-> click.params,
                                              uri |-> get_connection_uri(r.manager),
                                              tables |-> get_tables(r.manager, r.engines)]],
                   manager |-> r.manager, engines |-> r.engines,
                   returned |-> [is_connected |-> TRUE,
                                 db_uri |-> get_connection_uri(r.manager)]]
             ELSE [session_state |->
                      [ss EXCEPT !.is_connected = FALSE,
                                 !.connection_error = r.result.message],
                   manager |-> r.manager, engines |-> r.engines,
                   returned |-> [is_connected |-> FALSE, db_uri |-> None]]

\* initialize_dag: the compiled graph, its nodes bound to a connection of its own to db_uri
initialize_dag(db_uri) == [t |-> "app", conn |-> db_uri]

\* the script after the selector: the DAG is built when the selector reports a
\* connection and the session holds no app; dag_ok is FALSE when initialize_dag raises
session_init(ss, returned, dag_ok) ==
    IF returned.is_connected /\ returned.db_uri # None /\ ss.app = None /\ dag_ok
    THEN [ss EXCEPT !.app = initialize_dag(returned.db_uri)]
    ELSE ss

\* the Send button: the app of the session answers from the connection it was built
\* with; run_ok is FALSE when the run raises
send(ss, user_query, run_ok) ==
    IF ss.app = None \/ ~run_ok THEN ss
    ELSE [ss EXCEPT !.chat_history =
             Append(@, [query |-> user_query, result |-> [from |-> ss.app.conn]])]

UiConnect ==
    /\ \E click \in UiInputs, dag_ok \in BOOLEAN :
          LET r == render_database_selector(session_state, db_manager, engines, click)
          IN  /\ db_manager' = r.manager
              /\ engines' = r.engines
              /\ session_state' = session_init(r.session_state, r.returned, dag_ok)
    /\ UNCHANGED <<caller, pc, state, trace, db_log, llm_calls, last_response, exec_log,
                   figs, pre_figs, files, now, runs, saves, call, sessions, canvas>>

UiSend ==
    /\ Len(session_state.chat_history) < MaxQuestions
    /\ \E user_query \in Questions, run_ok \in BOOLEAN :
          LET r == render_database_selector(session_state, db_manager, engines, None)
              ss == session_init(r.session_state, r.returned, TRUE)
          IN  session_state' = send(ss, user_query, run_ok)
    /\ UNCHANGED <<db_manager, engines>>
    /\ UNCHANGED <<caller, pc, state, trace, db_log, llm_calls, last_response, exec_log,
                   figs, pre_figs, files, now, runs, saves, call, sessions, canvas>>

\* the state after initialize_connection_state and the first run of the script
UiInit ==
    /\ caller = "ui"
    /\ pc = "Idle"
    /\ state = EmptyDict
    /\ trace = <<>>
    /\ db_log = <<>>
    /\ llm_calls = <<>>
    /\ last_response = <<>>
    /\ exec_log = NotCalled
    /\ figs = 0
    /\ pre_figs = 0
    /\ files = {}
    /\ now = 0
    /\ runs = 0
    /\ saves = <<>>
    /\ call = NoCall
    /\ sessions = <<>>
    /\ canvas = <<>>
    /\ db_manager = DatabaseManager
    /\ engines = NoEngines
    /\ session_state = [is_connected |-> FALSE, connection_error |-> <<>>,
                        db_info |-> EmptyDict, app |-> None, chat_history |-> <<>>]

UiNext == UiConnect \/ UiSend

UiSpec == UiInit /\ [][UiNext]_vars

---------------------------------------------------------------------------
(* Properties *)

Entered(node) == \E i \in 1..Len(trace) : trace[i] = node
Statements == split_sql_statements(state["sql_query"])
Tables == state["data"]["tables"].v
FinalOutput == state["final_output"]

\* C1: a multi-statement blob of N statements yields exactly N entries in statement
\* order, every statement is handed to the database, an entry carries an error and no
\* column data exactly when its statement failed, and column data and no error otherwise
C1_OneEntryPerStatement ==
    (/\ Entered("convert_dataframe")
     /\ Has(state, "sql_query")
     /\ is_multi_statement_sql(state["sql_query"]))
    => /\ ~(pc = "Raised" /\ trace[Len(trace)] = "convert_dataframe")
       /\ Has(state, "data") /\ Has(state["data"], "tables")
       /\ Len(Tables) = Len(Statements)
       /\ Len(db_log) = Len(Statements)
       /\ \A i \in 1..Len(Statements) :
            /\ db_log[i].statement = Statements[i]
            /\ Tables[i].sql_statement = Statements[i]
            /\ IF db_log[i].kind = "rows"
               THEN Has(Tables[i], "dataframe") /\ ~Has(Tables[i], "error")
               ELSE Has(Tables[i], "error") /\ ~Has(Tables[i], "dataframe")

\* C1 witness: three statements, the first fails, the second and third still run and
\* carry column data
C1_Witness ==
    /\ Entered("convert_dataframe")
    /\ Has(state, "sql_query") /\ Len(Statements) = 3
    /\ Len(db_log) = 3
    /\ db_log[1].kind = "sql_error"
    /\ db_log[2].kind = "rows" /\ db_log[3].kind = "rows"
    /\ Has(Tables[1], "error")
    /\ Has(Tables[2], "dataframe") /\ Has(Tables[3], "dataframe")

\* C2: no exception leaves a stage, and a finished run has final_output
C2_EveryRunDegrades ==
    /\ pc # "Raised"
    /\ pc = "END" => Has(state, "final_output")

\* C3: once state_printer has run, whatever state it received, it has returned and
\* final_output is set and has at least one entry; END is reached only through it
C3_FinalOutputNonEmpty ==
    /\ Entered("state_printer") =>
          /\ pc \in {"END", "Returned"}
          /\ Has(state, "final_output")
          /\ DOMAIN FinalOutput # {}
    /\ pc = "END" => Entered("state_printer")

\* C3 witness: total failure, neither data nor chart slot, gives the literal message
C3_Witness ==
    /\ Entered("state_printer")
    /\ ~Has(state, "data") /\ ~Has(state, "chart_output")
    /\ Has(state, "final_output")
    /\ FinalOutput = [message |-> no_valid_output]

ChartFailed == exec_log.outcome \in {"figure", "exec", "save"}

\* C4: in a finished run the chart entry is present exactly when chart_output is and
\* equals it, the tabular entry is the table (or the tables) held in data whatever the
\* chart slot holds, and a run whose chart script threw has both the tabular data and
\* an error marker in the chart entry
C4_TabularAndChartIndependent ==
    pc = "END" =>
       /\ Has(FinalOutput, "chart") <=> Has(state, "chart_output")
       /\ Has(FinalOutput, "chart") => FinalOutput["chart"] = state["chart_output"]
       /\ IF is_multi_statement_sql(state["sql_query"])
          THEN /\ Has(FinalOutput, "multi_table_data")
               /\ FinalOutput["multi_table_data"] = state["data"]["tables"]
          ELSE /\ Has(FinalOutput, "dataframe")
               /\ DOMAIN FinalOutput["dataframe"] = DOMAIN state["data"]
               /\ \A c \in DOMAIN state["data"] :
                     FinalOutput["dataframe"][c] = state["data"][c].v
       /\ ChartFailed =>
            /\ Has(FinalOutput, "chart")
            /\ startswith(FinalOutput["chart"], Error)

\* C4 witness: a chart run whose query returned rows and whose script threw ends with
\* the table and the chart error marker side by side
C4_Witness ==
    /\ pc = "END"
    /\ state["tag"] = chart
    /\ exec_log.outcome = "exec"
    /\ Len(db_log) = 1 /\ db_log[1].kind = "rows"
    /\ Has(FinalOutput, "dataframe")
    /\ FinalOutput["dataframe"] = [a |-> <<3>>, b |-> <<4>>]
    /\ startswith(FinalOutput["chart"], error_executing)

ChartNodes == {"generate_chart_instructions", "execute_chart_code"}

\* C5: the chart nodes are entered only in a run tagged chart; a run tagged table never
\* has chart_script, chart_output or a chart entry; a run tagged chart reaches
\* state_printer only after both chart nodes; the router sends a state to the chart
\* branch only if it has a tag and the tag is chart
C5_ChartBranchIffChartTag ==
    /\ (Entered("conditional_router") /\ Has(state, "next")) =>
          (state["next"] = chart <=> (Has(state, "tag") /\ state["tag"] = chart))
    /\ (\E n \in ChartNodes : Entered(n)) => Has(state, "tag") /\ state["tag"] = chart
    /\ (Has(state, "tag") /\ state["tag"] = table) =>
          /\ \A n \in ChartNodes : ~Entered(n) /\ pc # n
          /\ ~Has(state, "chart_script")
          /\ ~Has(state, "chart_output")
          /\ Has(state, "final_output") => ~Has(FinalOutput, "chart")
    /\ (Has(state, "tag") /\ state["tag"] = chart /\ (pc = "state_printer" \/ pc = "END")) =>
          \E i, j \in 1..Len(trace) :
             /\ i < j
             /\ trace[i] = "generate_chart_instructions"
             /\ trace[j] = "execute_chart_code"
             /\ \A k \in 1..j : trace[k] # "state_printer"

\* C5 witness: a finished run tagged table
C5_Witness ==
    /\ pc = "END"
    /\ state["tag"] = table
    /\ Has(FinalOutput, "dataframe")
    /\ trace[Len(trace)] = "state_printer"

TablePath ==
    <<"process_question", "generate_sql", "convert_dataframe", "conditional_router",
      "state_printer">>
ChartPath ==
    <<"process_question", "generate_sql", "convert_dataframe", "conditional_router",
      "generate_chart_instructions", "execute_chart_code", "state_printer">>

IsPrefix(a, b) == Len(a) <= Len(b) /\ SubSeq(b, 1, Len(a)) = a

\* C6: the nodes entered form a prefix of one of the two fixed paths (so each is entered
\* at most once and after its predecessor), the node about to run is the next one of
\* that path, END follows a complete path, and the database sees the statements of the
\* query one by one in their order
C6_FixedStageOrder ==
    /\ IsPrefix(trace, TablePath) \/ IsPrefix(trace, ChartPath)
    /\ pc \in Nodes =>
          IsPrefix(Append(trace, pc), TablePath) \/ IsPrefix(Append(trace, pc), ChartPath)
    /\ pc = "END" => trace \in {TablePath, ChartPath}
    /\ Entered("convert_dataframe") =>
          /\ Len(db_log) = Len(read_sql_calls(state["sql_query"]))
          /\ \A i \in 1..Len(db_log) :
                db_log[i].statement = read_sql_calls(state["sql_query"])[i]

\* C6 witness: a finished chart run over a two-statement query
C6_Witness ==
    /\ pc = "END"
    /\ trace = ChartPath
    /\ Len(db_log) = 2

\* C7: no execute_chart_code call ends with an exception
C7_RenderChartNeverRaises ==
    ~(pc = "Raised" /\ trace # <<>> /\ trace[Len(trace)] = "execute_chart_code")

\* C8: when an execute_chart_code call is over, no figure is open
C8_SurfaceReleasedOnEveryPath ==
    (trace # <<>> /\ trace[Len(trace)] = "execute_chart_code") => figs = 0

\* C9: a connection failure ends the run with one exception: it is the last call made
\* on the connection, and nothing is recorded in data for it
C9_ConnectionFailureIsFatal ==
    \A i \in 1..Len(db_log) :
       db_log[i].kind = "conn_error" =>
          /\ pc = "Raised"
          /\ i = Len(db_log)
          /\ ~Has(state, "data")

ChartLetters == <<{"c", "C"}, {"h", "H"}, {"a", "A"}, {"r", "R"}, {"t", "T"}>>

\* the answer is the word chart in any letter case, with only whitespace around it
SaysChart(answer) ==
    \E i \in 1..Len(answer) :
       /\ i + 4 <= Len(answer)
       /\ \A k \in 1..5 : answer[i + k - 1] \in ChartLetters[k]
       /\ \A k \in 1..Len(answer) : (k < i \/ k > i + 4) => answer[k] \in Whitespace

\* C10: the tag is always chart or table, and right after classification it is chart
\* exactly when the model's answer says chart
C10_TagIsChartIffAnswerIsChart ==
    /\ Has(state, "tag") => state["tag"] \in {chart, table}
    /\ (pc = "generate_sql" /\ Has(state, "tag")) =>
          (state["tag"] = chart <=> SaysChart(last_response))

\* C10 witness: the answer " CHART" followed by a newline is normalised to chart
C10_Witness ==
    /\ pc = "generate_sql"
    /\ last_response = <<" ", "C", "H", "A", "R", "T", NL>>
    /\ state["tag"] = chart

two_dashes == <<"-", "-">>
trailing_comment_blob == <<"S","E","L","E","C","T"," ","1",";"," ","-","-"," ","c","o","m","m","e","n","t",NL,"S","E","L","E","C","T"," ","2",";">>
select_1 == <<"S","E","L","E","C","T"," ","1">>
select_2 == <<"S","E","L","E","C","T"," ","2">>
two_terminated == <<"S","E","L","E","C","T"," ","1",";"," ","S","E","L","E","C","T"," ","2",";">>

\* C11: split_sql_statements returns only statements: no returned statement contains
\* comment text, and the blob whose first terminator is followed by a comment on the
\* same line gives exactly the statements SELECT 1 and SELECT 2
C11_NoCommentTextInStatements ==
    Returned("split_sql_statements") =>
       /\ \A i \in 1..Len(call.result) : ~contains(call.result[i], two_dashes)
       /\ call.arg = trailing_comment_blob => call.result = <<select_1, select_2>>

\* C12: is_multi_statement_sql returns whether split_sql_statements gives more than one
\* statement, for every blob; false for the empty blob and for one statement with or
\* without terminator, true for two terminated statements
C12_MultiIffMoreThanOneStatement ==
    Returned("is_multi_statement_sql") =>
       /\ call.result \in BOOLEAN
       /\ call.result <=> Len(split_sql_statements(call.arg)) > 1
       /\ call.arg \in {<<>>, select_1, select_1 \o <<";">>} => ~call.result
       /\ call.arg = two_terminated => call.result

\* C12 witness: the blob with two terminated statements is found to be multi-statement
C12_Witness ==
    /\ Returned("is_multi_statement_sql")
    /\ call.arg = two_terminated
    /\ call.result = TRUE

\* the model output without the SQLQuery: prefix, trimmed, placeholder substituted
Cleaned(response) ==
    replace(strip(replace(response, sQLQuery, <<>>)), your_table_name, store_sales_data)

HasFence(text) == contains(lower(text), fence_sql)

\* what stands between the first opening sql fence and the next fence, as written
FencedContent(text) ==
    LET i == find(lower(text), fence_sql, 1)
        rest == Drop(text, i + Len(fence_sql) - 1)
        j == find(rest, fence, 1)
    IN  IF j = 0 THEN rest ELSE SubSeq(rest, 1, j - 1)

\* C13: for an output with a sql fenced block the value returned is the content of the
\* first block as written, letter case included, trimmed
C13_FencedBlockRoundTrip ==
    (Returned("extract_sql_code") /\ HasFence(Cleaned(call.arg))) =>
       call.result = strip(FencedContent(Cleaned(call.arg)))

BacktickParts(text) == split(text, <<BT>>)
Lines(text) == split(text, <<NL>>)

\* the tier that applies to a cleaned text: the highest whose pattern occurs
MatchesBackticks(text) ==
    contains(text, <<BT>>) /\ \E k \in 1..Len(BacktickParts(text)) : has_keyword(BacktickParts(text)[k])
MatchesLine(text) ==
    \E k \in 1..Len(Lines(text)) : starts_with_keyword(Lines(text)[k])

\* the first element of parts that passes, trimmed
IsFirstPassing(result, parts, Pass(_)) ==
    \E k \in 1..Len(parts) :
       /\ Pass(parts[k])
       /\ \A j \in 1..(k - 1) : ~Pass(parts[j])
       /\ result = strip(parts[k])

\* C14: the value returned is the one of the highest tier that applies: the fenced
\* block when there is one; otherwise the first backtick part with a keyword when
\* there is one; otherwise the first line starting with a keyword when there is one;
\* otherwise the whole cleaned text
C14_TiersInPriorityOrder ==
    Returned("extract_sql_code") =>
       LET text == Cleaned(call.arg) IN
       IF HasFence(text)
       THEN lower(call.result) = lower(strip(FencedContent(text)))
       ELSE IF MatchesBackticks(text)
       THEN IsFirstPassing(call.result, BacktickParts(text), has_keyword)
       ELSE IF MatchesLine(text)
       THEN IsFirstPassing(call.result, Lines(text), starts_with_keyword)
       ELSE call.result = strip(text)

backticks_then_line == <<"x"," ",BT,"S","E","L","E","C","T"," ","2",BT,NL,"S","E","L","E","C","T"," ","a"," ","F","R","O","M"," ","y","o","u","r","_","t","a","b","l","e","_","n","a","m","e">>

\* C14 witness: backticks and a keyword line both present, the backtick tier answers
C14_Witness ==
    /\ Returned("extract_sql_code")
    /\ call.arg = backticks_then_line
    /\ MatchesBackticks(Cleaned(call.arg)) /\ MatchesLine(Cleaned(call.arg))
    /\ call.result = select_2

\* C15: an answer of the backtick tier is a segment that stood between a pair of
\* backticks and contains a keyword
C15_BacktickTierReturnsDelimitedText ==
    (/\ Returned("extract_sql_code")
     /\ ~HasFence(Cleaned(call.arg))
     /\ MatchesBackticks(Cleaned(call.arg)))
    => LET parts == BacktickParts(Cleaned(call.arg))
       IN  \E k \in 1..Len(parts) :
              /\ k % 2 = 0
              /\ k < Len(parts)
              /\ has_keyword(parts[k])
              /\ call.result = strip(parts[k])

\* the field each stage is documented to set
OwnField(node) ==
    CASE node = "process_question" -> {"tag"}
      [] node = "generate_sql" -> {"sql_query"}
      [] node = "convert_dataframe" -> {"data"}
      [] node = "conditional_router" -> {}
      [] node = "generate_chart_instructions" -> {"chart_script"}
      [] node = "execute_chart_code" -> {"chart_output"}
      [] node = "state_printer" -> {"final_output"}

\* every other key is present before and after with the same value
OthersUnchanged(node) ==
    \A k \in (DOMAIN state \cup DOMAIN state') \ OwnField(node) :
       k \in DOMAIN state /\ k \in DOMAIN state' /\ state'[k] = state[k]

\* C16: a stage of a pipeline run changes at most its own field, which was not set
\* before, leaves every other field as it was, and the state never has a key outside
\* GraphState
C16_WriteOnceFields ==
    [][(pc \in Nodes /\ pc' # pc) =>
          /\ OthersUnchanged(pc)
          /\ OwnField(pc) \cap DOMAIN state = {}
          /\ DOMAIN state' \subseteq GraphStateKeys]_vars

\* C17: an executed chart script can resolve the four names df, plt, pd, np and no
\* other name
C17_NamespaceExposesFourNames ==
    exec_log.executed => resolvable(local_namespace) = {"df", "plt", "pd", "np"}

ChartPrompts == {llm_calls[i].prompt : i \in {j \in 1..Len(llm_calls) : llm_calls[j].kind = "chart"}}

\* C18: the chart prompt sent is the one any data with the same column names would
\* have given for the same question
C18_PromptIndependentOfRows ==
    \A prompt \in ChartPrompts :
       \A other \in StageData :
          DOMAIN other = DOMAIN state["data"] =>
             chart_prompt(Put(state, "data", other)) = prompt

\* C19: no two savefig calls of the process were given the same path
C19_UniqueFileNames ==
    \A i, j \in 1..Len(saves) : i # j => saves[i] # saves[j]

Saved(i) == sessions # <<>> /\ sessions[i].saved # <<>>

CallKinds == [i \in 1..Len(llm_calls) |-> llm_calls[i].kind]

\* C21 as stated: a finished run has invoked the model exactly three times, for
\* classification, SQL generation and chart-script generation in that order
C21_ExactlyThreeModelCalls ==
    pc = "END" => CallKinds = <<"classify", "sql", "chart">>

\* C21 amended: the model is invoked at most three times in the order classification,
\* SQL generation, chart-script generation; a finished run tagged table has invoked it
\* exactly twice and a finished run tagged chart exactly three times; each prompt is
\* built from the question (and, for the chart script, the data), never from an
\* earlier answer of the model
C21_ModelCallsPerBranch ==
    /\ IsPrefix(CallKinds, <<"classify", "sql", "chart">>)
    /\ pc = "END" => Len(llm_calls) = IF state["tag"] = chart THEN 3 ELSE 2
    /\ \A i \in 1..Len(llm_calls) :
          IF llm_calls[i].kind = "chart"
          THEN llm_calls[i].prompt = [question |-> state["question"],
                                      columns |-> DOMAIN state["data"],
                                      data |-> state["data"]]
          ELSE llm_calls[i].prompt = [question |-> state["question"]]

\* C21 witness: a finished run tagged table, with two model calls
C21_Witness ==
    /\ pc = "END"
    /\ state["tag"] = table
    /\ CallKinds = <<"classify", "sql">>

Ordinals == <<"1", "2", "3", "4", "5", "6", "7", "8", "9">>
FailureMessage(kind) ==
    IF kind = "sql_error" THEN <<"s","q","l">> ELSE <<"c","o","n","n">>

\* C22: when the i-th statement of a multi-statement batch fails, the i-th entry holds
\* the failure message in its error field, is labelled "Error in Statement i" with the
\* 1-based position i in the split list, and its sql_statement is that i-th statement
C22_FailureLabelledWithPosition ==
    (/\ Entered("convert_dataframe")
     /\ Has(state, "sql_query")
     /\ is_multi_statement_sql(state["sql_query"]))
    => \A i \in 1..Len(Statements) :
          db_log[i].kind # "rows" =>
             /\ Tables[i].table_name = error_in_statement \o <<Ordinals[i]>>
             /\ Tables[i].error = FailureMessage(db_log[i].kind)
             /\ Tables[i].sql_statement = Statements[i]

\* C22 witness: of three statements the first succeeds and the second and third fail,
\* so that position, 0-based index and count of failures all differ
C22_Witness ==
    /\ Entered("convert_dataframe")
    /\ Has(state, "sql_query") /\ Len(Statements) = 3
    /\ Len(db_log) = 3
    /\ db_log[1].kind = "rows"
    /\ db_log[2].kind = "sql_error" /\ db_log[3].kind = "conn_error"
    /\ Tables[2].table_name = error_in_statement \o <<"2">>
    /\ Tables[3].table_name = error_in_statement \o <<"3">>

\* C23: state_printer emits the literal no-output message exactly when the state holds
\* neither data nor a chart slot; the message never comes with a tabular or chart entry
C23_MessageIffNothingPresent ==
    (Entered("state_printer") /\ Has(state, "final_output")) =>
       /\ Has(FinalOutput, "message")
             <=> (~Has(state, "data") /\ ~Has(state, "chart_output"))
       /\ Has(FinalOutput, "message") =>
             /\ DOMAIN FinalOutput = {"message"}
             /\ FinalOutput["message"] = no_valid_output

\* C23 witness: state_printer called on a state with neither key returns the message,
\* alone
C23_Witness ==
    /\ Entered("state_printer")
    /\ DOMAIN state \cap {"data", "chart_output"} = {}
    /\ Has(state, "final_output")
    /\ Has(FinalOutput, "message")
    /\ DOMAIN FinalOutput = {"message"}

InvalidScript(s) ==
    \/ ~Has(s, "chart_script")
    \/ s["chart_script"] = <<>>
    \/ startswith(s["chart_script"], Error)

\* C24: a script that is empty or starts with "Error" is never executed:
\* execute_chart_code returns the marker "Error: No chart script available", opens no
\* figure and writes no file; generate_chart_instructions on a state without data
\* produces such a script without invoking the model
C24_InvalidScriptNotExecuted ==
    /\ (Entered("execute_chart_code") /\ InvalidScript(state)) =>
          /\ pc # "Raised"
          /\ Has(state, "chart_output") /\ state["chart_output"] = no_chart_script
          /\ ~exec_log.executed
          /\ exec_log.opened = 0
          /\ figs = pre_figs
          /\ files = {}
    /\ (Entered("generate_chart_instructions") /\ ~Has(state, "data")) =>
          /\ Has(state, "chart_script") /\ state["chart_script"] = no_dataframe
          /\ InvalidScript(state)
          /\ llm_calls = <<>>

\* C24 witness: execute_chart_code handed the script "Error: No DataFrame in state."
\* together with a well-formed table and an open figure returns the marker
C24_Witness ==
    /\ Entered("execute_chart_code")
    /\ Has(state, "chart_script") /\ state["chart_script"] = no_dataframe
    /\ Has(state, "data") /\ DataFrameOk(state["data"])
    /\ figs = 1
    /\ state["chart_output"] = no_chart_script
    /\ exec_log.outcome = "skipped"

\* the text of a line up to its first "--"
Uncommented(line) ==
    LET k == find(line, two_dashes, 1)
    IN  IF k = 0 THEN line ELSE SubSeq(line, 1, k - 1)

\* the statements a database would execute: comments removed, split at terminators
ExecutableStatements(sql) ==
    filter(split(join(map(Lines(sql), Uncommented), <<NL>>), <<";">>), not_blank)

commented_single == select_1 \o <<";", " ">> \o two_dashes \o <<" ","c","o","m","m","e","n","t">>

\* C25: a blob with exactly one executable statement runs on the single-statement path,
\* also when its terminator is followed by a trailing comment on the same line:
\* is_multi_statement_sql is false, the database receives one request and data is one
\* column mapping, not a multi-table list
C25_OneStatementOnSinglePath ==
    (/\ Entered("convert_dataframe")
     /\ Has(state, "sql_query")
     /\ Len(ExecutableStatements(state["sql_query"])) = 1)
    => /\ ~is_multi_statement_sql(state["sql_query"])
       /\ Len(db_log) = 1
       /\ Has(state, "data") => ~Has(state["data"], "multi_table")

\* the same for every blob but the one with the trailing comment
C25_HoldsWithoutTrailingComment ==
    (Has(state, "sql_query") /\ state["sql_query"] = commented_single)
    \/ C25_OneStatementOnSinglePath

\* what convert_dataframe stores for one statement: every key a column with its rows
IsColumnMapping(d) == \A c \in DOMAIN d : d[c].t = "list"

\* what convert_dataframe stores for several statements
IsMultiResult(d) ==
    /\ Has(d, "multi_table") /\ d["multi_table"] = PyBool(TRUE)
    /\ Has(d, "tables")

\* C26: state_printer recovers the shape of data for every set of column names: a
\* single-statement result is surfaced as one dataframe, also when a column is named
\* "multi_table" or "tables", and a multi-statement result as the multi-table list
C26_ShapeRecoveredForEveryColumnName ==
    (Entered("state_printer") /\ Has(state, "data") /\ Has(state, "final_output")) =>
       /\ (IsColumnMapping(state["data"]) /\ DataFrameOk(state["data"])) =>
             /\ Has(FinalOutput, "dataframe")
             /\ FinalOutput["dataframe"] = DataFrame(state["data"])
             /\ ~Has(FinalOutput, "multi_table_data")
             /\ ~Has(FinalOutput, "error")
       /\ IsMultiResult(state["data"]) =>
             /\ Has(FinalOutput, "multi_table_data")
             /\ FinalOutput["multi_table_data"] = state["data"]["tables"]
             /\ ~Has(FinalOutput, "dataframe")

\* the same for every result but the one with a column named "multi_table"
C26_HoldsWithoutFlagColumn ==
    (Has(state, "data") /\ IsColumnMapping(state["data"])
        /\ Has(state["data"], "multi_table"))
    \/ C26_ShapeRecoveredForEveryColumnName

\* the column names the database returns
DbColumns == UNION {DOMAIN df : df \in DbTables}

\* C27: whenever the chart branch runs, the columns listed in the chart prompt and the
\* columns of the df handed to the script are column names returned by the database,
\* also after a multi-statement query: "multi_table" and "tables" are never presented
\* as data columns
C27_ChartSeesOnlyDatabaseColumns ==
    /\ \A i \in 1..Len(llm_calls) :
          llm_calls[i].kind = "chart" => llm_calls[i].prompt.columns \subseteq DbColumns
    /\ (Entered("execute_chart_code") /\ exec_log.executed) =>
          DOMAIN DataFrame(state["data"]) \subseteq DbColumns

\* the same for runs whose query was a single statement
C27_HoldsForSingleStatement ==
    (Has(state, "sql_query") /\ is_multi_statement_sql(state["sql_query"]))
    \/ C27_ChartSeesOnlyDatabaseColumns

\* C28: a run through the compiled graph reaches state_printer only with data set by
\* convert_dataframe, so final_output holds a dataframe, a multi-table list or an
\* assembly error, and never the message "No valid output found."
C28_PipelineNeverSaysNoOutput ==
    (caller = "dag" /\ Entered("state_printer")) =>
       /\ Entered("convert_dataframe")
       /\ Has(state, "data")
       /\ Has(state, "final_output")
       /\ DOMAIN FinalOutput \cap {"dataframe", "multi_table_data", "error"} # {}
       /\ ~Has(FinalOutput, "message")

\* C28 witness: a finished run in which every statement of the batch failed still has
\* the multi-table list as its tabular entry
C28_Witness ==
    /\ caller = "dag" /\ pc = "END"
    /\ Has(FinalOutput, "multi_table_data")
    /\ Len(db_log) > 1
    /\ \A i \in 1..Len(db_log) : db_log[i].kind # "rows"
    /\ ~Has(FinalOutput, "message")

\* the URI of the open connection, None without one
LiveUri ==
    IF db_manager.current_conn = None THEN None
    ELSE engines[db_manager.current_conn.engine].uri

\* C29: after any sequence of connect and close_connection calls the reported facts
\* agree with the live connection: the stored URI, type and inspector are non-null only
\* while a connection is open, the URI is that connection's, and get_tables never
\* answers through a disposed engine
C29_ReportedFactsMatchLiveConnection ==
    /\ get_connection_uri(db_manager) = LiveUri
    /\ db_manager.current_db_type # None => db_manager.current_conn # None
    /\ db_manager.inspector # None =>
          /\ db_manager.current_conn # None
          /\ ~engines[db_manager.inspector.engine].disposed
    /\ (call.fn = "get_tables" /\ call.result.of # None) =>
          /\ call.result.of = LiveUri
          /\ ~engines[db_manager.inspector.engine].disposed

\* the facts do agree while a connection is open
C29_HoldsWhileConnected ==
    db_manager.current_conn = None \/ C29_ReportedFactsMatchLiveConnection

\* C30: within one session, after every successful Connect the app that answers the
\* following questions is bound to the database just connected: a question is never
\* answered from a database other than the one the session last connected to
C30_AnswersComeFromConnectedDatabase ==
    [][Len(session_state'.chat_history) > Len(session_state.chat_history) =>
          session_state'.chat_history[Len(session_state'.chat_history)].result.from
             = session_state.db_info.uri]_vars

\* the same as a fact about the session: the app is bound to the connected database
C30_AppBoundToConnectedDatabase ==
    (session_state.is_connected /\ session_state.app # None) =>
       session_state.app.conn = get_connection_uri(db_manager)

====
